---- MODULE Spec2Model ----
(***************************************************************************)
(* A model of the 3D product viewer: the GLB build (src/src/App.vue) and   *)
(* the FBX / manifest build (src/unnamed/part_000).                        *)
(*                                                                         *)
(* A string on which the code does character work (node names, material   *)
(* names, manifest keys) is a sequence of one-character strings.  File     *)
(* names are only compared, and are plain strings.                         *)
(***************************************************************************)
EXTENDS Integers, Sequences, FiniteSets, TLC

\* ------------------------------------------------------------------------
\* Bounds of the model
\* ------------------------------------------------------------------------
MaxNameLen == 2        \* longest part-like stem of a node name
MaxAncestors == 1      \* ancestors above the mesh in the resolver inputs
MaxParts == 2          \* part keys of an enumerated manifest
MaxMatLen == 4         \* longest exhaustively enumerated material name
MaxVariants == 2       \* declared variants of a part
MaxBuilds == 2         \* material builds (mesh x material slot) of a loaded model
MaxTime == 1           \* last reading of the clock
MaxFrames == 2         \* frames rendered in a session
MaxTokens == 3         \* tokens of a GLB mesh name
MaxCalls == 3          \* loadTexture calls made after the scene is up
MaxMeshes == 2         \* meshes of the model toggleExplode moves

\* ------------------------------------------------------------------------
\* Characters and strings
\* ------------------------------------------------------------------------
LowerAlpha == << "a", "b", "c", "d", "e", "f", "g", "h", "i", "j", "k", "l", "m",
                 "n", "o", "p", "q", "r", "s", "t", "u", "v", "w", "x", "y", "z" >>
UpperAlpha == << "A", "B", "C", "D", "E", "F", "G", "H", "I", "J", "K", "L", "M",
                 "N", "O", "P", "Q", "R", "S", "T", "U", "V", "W", "X", "Y", "Z" >>
DigitChars == { "0", "1", "2", "3", "4", "5", "6", "7", "8", "9" }

IsLetter(c) == \E i \in 1..26 : LowerAlpha[i] = c \/ UpperAlpha[i] = c
IsAlnum(c) == IsLetter(c) \/ c \in DigitChars
\* the character class [a-z0-9_] under the i flag
IsWordChar(c) == IsAlnum(c) \/ c = "_"
IsSpace(c) == c \in { " ", "\t" }

ToLowerChar(c) ==
    IF \E i \in 1..26 : UpperAlpha[i] = c
    THEN LowerAlpha[CHOOSE i \in 1..26 : UpperAlpha[i] = c]
    ELSE c

toLowerCase(s) == [i \in 1..Len(s) |-> ToLowerChar(s[i])]

SetMin(S) == CHOOSE x \in S : \A y \in S : x <= y
SetMax(S) == CHOOSE x \in S : \A y \in S : x >= y

\* String.prototype.trim
trim(s) ==
    LET idx == { i \in 1..Len(s) : ~IsSpace(s[i]) }
    IN  IF idx = {} THEN << >> ELSE SubSeq(s, SetMin(idx), SetMax(idx))

\* String.prototype.includes / startsWith
includes(t, s) == \E i \in 0..(Len(t) - Len(s)) : SubSeq(t, i + 1, i + Len(s)) = s
startsWith(t, s) == Len(s) <= Len(t) /\ SubSeq(t, 1, Len(s)) = s

\* null / undefined where a string is expected
NullName == << "null" >>
Coalesce(a, b) == IF a # NullName THEN a ELSE b
Falsy(s) == s = NullName \/ s = << >>

\* all strings over the characters A of length at most n
RECURSIVE Strs(_, _)
Strs(A, n) ==
    IF n = 0 THEN { << >> }
    ELSE LET shorter == Strs(A, n - 1)
         IN  shorter \cup { Append(s, c) : s \in { x \in shorter : Len(x) = n - 1 }, c \in A }

\* ------------------------------------------------------------------------
\* Name resolution of the manifest build
\* ------------------------------------------------------------------------
VARIABLES
    manifestData,   \* Seq of [key, variants: Seq of [key, textures]], in Object.keys order
    inMesh,         \* resolver input: [name, parents], parents nearest first
    inMaterial,     \* resolver input: the material name, or NullName
    outPartKey,     \* what findPartKeyFromObject returned (Unset before the call)
    outToken,       \* what extractVariantName(materialName) returned (Unset before the call)
    outInfo         \* what resolveManifestInfo returned (UnsetInfo before the call)

Channels == << "BaseColor", "Normal", "ORM" >>
NoFile == "none"
NullInfo == [partKey |-> NullName, variantKey |-> NullName,
             textures |-> [c \in { "BaseColor", "Normal", "ORM" } |-> NoFile]]

Unset == << "unset" >>
UnsetInfo == [partKey |-> Unset, variantKey |-> Unset,
              textures |-> [c \in { "BaseColor", "Normal", "ORM" } |-> NoFile]]

normalizeKey(value) == toLowerCase(SelectSeq(value, IsWordChar))

manifestPartMeta ==
    [i \in 1..Len(manifestData) |->
        [original |-> manifestData[i].key, normalized |-> normalizeKey(manifestData[i].key)]]

\* the chain the while loop walks: the object itself, then its parents up to the root
NodeChain(object) == << object.name >> \o object.parents

\* manifestPartMeta.find(...) on one node name: the index of the first match, 0 if none
FindMeta(name) ==
    LET normalizedName == normalizeKey(name)
        hits == { k \in 1..Len(manifestPartMeta) :
                    \/ startsWith(normalizedName, manifestPartMeta[k].normalized)
                    \/ includes(normalizedName, manifestPartMeta[k].normalized) }
    IN  IF hits = {} THEN 0 ELSE SetMin(hits)

RECURSIVE WalkChain(_, _)
WalkChain(chain, i) ==
    IF i > Len(chain) THEN NullName
    ELSE LET name == trim(chain[i])
             match == IF name # << >> THEN FindMeta(name) ELSE 0
         IN  IF match # 0 THEN manifestPartMeta[match].original
             ELSE WalkChain(chain, i + 1)

findPartKeyFromObjectFarthest(object) ==
    LET chain == NodeChain(object)
        rev == [i \in 1..Len(chain) |-> chain[Len(chain) + 1 - i]]
    IN  WalkChain(rev, 1)
\* the walk started at the parent of the mesh
findPartKeyFromObjectFromParent(object) == WalkChain(object.parents, 1)
findPartKeyFromObject(object) == WalkChain(NodeChain(object), 1)

\* the same without the i flag
extractVariantNameCaseSensitive(value) ==
    IF Falsy(value) THEN NullName
    ELSE LET starts == { i \in 1..(Len(value) - 3) :
                            /\ SubSeq(value, i, i + 2) = << "m", "a", "t" >>
                            /\ IsAlnum(value[i + 3]) /\ ToLowerChar(value[i + 3]) = value[i + 3] }
         IN  IF starts = {} THEN NullName
             ELSE LET i == SetMin(starts)
                      e == SetMax({ j \in (i + 3)..Len(value) :
                                      \A k \in (i + 3)..j :
                                        IsAlnum(value[k]) /\ ToLowerChar(value[k]) = value[k] })
                  IN  SubSeq(value, i, e)
extractVariantName(value) ==
    IF Falsy(value) THEN NullName
    ELSE LET starts == { i \in 1..(Len(value) - 3) :
                            /\ ToLowerChar(value[i]) = "m"
                            /\ ToLowerChar(value[i + 1]) = "a"
                            /\ ToLowerChar(value[i + 2]) = "t"
                            /\ IsAlnum(value[i + 3]) }
         IN  IF starts = {} THEN NullName
             ELSE LET i == SetMin(starts)
                      e == SetMax({ j \in (i + 3)..Len(value) :
                                      \A k \in (i + 3)..j : IsAlnum(value[k]) })
                  IN  SubSeq(value, i, e)

\* manifestData[partKey]: the index of the part with that key, 0 if undefined
PartIndex(partKey) ==
    LET hits == { i \in 1..Len(manifestData) : manifestData[i].key = partKey }
    IN  IF hits = {} THEN 0 ELSE SetMin(hits)

resolveManifestInfo(mesh, materialName) ==
    LET partKey == findPartKeyFromObject(mesh)
    IN  IF Falsy(partKey) \/ PartIndex(partKey) = 0 THEN NullInfo
        ELSE LET partEntry == manifestData[PartIndex(partKey)].variants
                 variantName == Coalesce(extractVariantName(materialName),
                                         extractVariantName(mesh.name))
                 found == { v \in 1..Len(partEntry) :
                              normalizeKey(partEntry[v].key) = normalizeKey(variantName) }
                 byName == IF variantName # NullName /\ found # {}
                           THEN partEntry[SetMin(found)].key ELSE NullName
                 variantKey == IF ~Falsy(byName) THEN byName
                               ELSE IF Len(partEntry) > 0 THEN partEntry[1].key
                               ELSE NullName
             IN  IF Falsy(variantKey) THEN NullInfo
                 ELSE [partKey |-> partKey, variantKey |-> variantKey,
                       textures |-> partEntry[CHOOSE v \in 1..Len(partEntry) :
                                                partEntry[v].key = variantKey].textures]

\* ------------------------------------------------------------------------
\* Name resolution of the GLB build (file names are constructed, not looked up)
\* ------------------------------------------------------------------------
\* value.replace(/\s+/g, '_')
RECURSIVE CollapseSpaces(_, _)
CollapseSpaces(s, i) ==
    IF i > Len(s) THEN << >>
    ELSE IF IsSpace(s[i])
         THEN (IF i > 1 /\ IsSpace(s[i - 1]) THEN << >> ELSE << "_" >>) \o CollapseSpaces(s, i + 1)
         ELSE << s[i] >> \o CollapseSpaces(s, i + 1)

\* value.replace(/_low\b/g, ''): "_low" followed by the end or by a non-word character
RECURSIVE RemoveLow(_, _)
RemoveLow(s, i) ==
    IF i > Len(s) THEN << >>
    ELSE IF /\ i + 3 <= Len(s)
            /\ SubSeq(s, i, i + 3) = << "_", "l", "o", "w" >>
            /\ (i + 4 > Len(s) \/ ~IsWordChar(s[i + 4]))
         THEN RemoveLow(s, i + 4)
         ELSE << s[i] >> \o RemoveLow(s, i + 1)

sanitizeName(value) == normalizeKey(RemoveLow(CollapseSpaces(value, 1), 1))

\* sanitized.split('_').filter(Boolean)
RECURSIVE SplitTokens(_, _, _)
SplitTokens(s, i, cur) ==
    IF i > Len(s) THEN (IF cur = << >> THEN << >> ELSE << cur >>)
    ELSE IF s[i] = "_"
         THEN (IF cur = << >> THEN << >> ELSE << cur >>) \o SplitTokens(s, i + 1, << >>)
         ELSE SplitTokens(s, i + 1, Append(cur, s[i]))

RECURSIVE JoinTokens(_)
JoinTokens(tokens) ==
    IF Len(tokens) = 0 THEN << >>
    ELSE IF Len(tokens) = 1 THEN tokens[1]
    ELSE tokens[1] \o << "_" >> \o JoinTokens(Tail(tokens))

IsDigits(token) == Len(token) > 0 /\ \A k \in 1..Len(token) : token[k] \in DigitChars

extractPartKeyFromCandidate(value) ==
    IF Falsy(value) THEN NullName
    ELSE LET tokens == SplitTokens(sanitizeName(value), 1, << >>)
             digits == { k \in 1..Len(tokens) : IsDigits(tokens[k]) }
         IN  IF digits = {} THEN NullName
             ELSE LET index == SetMin(digits)
                      stops == { k \in index..Len(tokens) :
                                   startsWith(tokens[k], << "m", "a", "t" >>) }
                      last == IF stops = {} THEN Len(tokens) ELSE SetMin(stops) - 1
                      collected == SubSeq(tokens, index, last)
                  IN  IF Len(collected) >= 2
                      THEN \* joined.replace(/_\d+$/, '')
                           IF IsDigits(collected[Len(collected)])
                           THEN JoinTokens(SubSeq(collected, 1, Len(collected) - 1))
                           ELSE JoinTokens(collected)
                      ELSE NullName

RECURSIVE FirstPart(_, _)
FirstPart(candidates, i) ==
    IF i > Len(candidates) THEN NullName
    ELSE LET part == extractPartKeyFromCandidate(candidates[i])
         IN  IF ~Falsy(part) THEN part ELSE FirstPart(candidates, i + 1)

Truthy(names) == SelectSeq(names, LAMBDA n : ~Falsy(n))

\* the material name tried before the mesh name
glbFindPartKeyFromObjectMaterialFirst(object, materialName) ==
    FirstPart(Truthy(<< materialName >>) \o Truthy(<< object.name >>) \o Truthy(object.parents), 1)
glbFindPartKeyFromObject(object, materialName) ==
    FirstPart(Truthy(<< object.name >>) \o Truthy(<< materialName >>) \o Truthy(object.parents), 1)

MatMetalKey == << "m", "a", "t", "m", "e", "t", "a", "l" >>
MatPaintKey == << "m", "a", "t", "p", "a", "i", "n", "t" >>
MatRubberKey == << "m", "a", "t", "r", "u", "b", "b", "e", "r" >>
variantFileNameMap(variantKey) ==
    IF variantKey = MatMetalKey THEN << "M", "a", "t", "M", "e", "t", "a", "l" >>
    ELSE IF variantKey = MatPaintKey THEN << "M", "a", "t", "P", "a", "i", "n", "t" >>
    ELSE IF variantKey = MatRubberKey THEN << "m", "a", "t", "R", "u", "b", "b", "e", "r" >>
    ELSE variantKey

\* without the || 'matmetal'
resolveVariantKeyNoDefault(variant) ==
    normalizeKey(IF variant = NullName THEN << >> ELSE variant)
resolveVariantKey(variant) ==
    LET normalized == normalizeKey(IF variant = NullName THEN << >> ELSE variant)
    IN  IF normalized # << >> THEN normalized ELSE MatMetalKey

\* `model_${variantName}_${suffix}.ktx2`, kept as the pair that determines it
buildSharedTextureFileName(variantKey, suffix) == << variantFileNameMap(variantKey), suffix >>

rvars == << manifestData, inMesh, inMaterial, outPartKey, outToken, outInfo >>

\* ------------------------------------------------------------------------
\* The scene session: state
\* ------------------------------------------------------------------------
VARIABLES
    build,                  \* "glb" (src/src/App.vue) or "fbx" (src/unnamed/part_000)
    now,                    \* the reading of performance.now()
    pc,                     \* where initScene stands: init, awaitEnv, awaitModel, done, failed
    envState,               \* the environment map load: idle, loading, loaded, failed, threw
    modelState,             \* the model load: idle, loading, parsed, resolved, failed
    content,                \* the material builds of the loaded model, in traversal order
    requests,               \* the loadTexture calls made, in call order
    loading, errorMessage, loadMetrics,
    renderer,               \* TRUE while renderer, scene, camera, pmremGenerator are non-null
    textureCache, assetSizeCache, recordedTextureAssets,
    textureLoadsInFlight, textureLoadStart, modelLoadStart,
    modelSizeRecorded, hasRenderedFirstFrame,
    textureDebug,
    probes,                 \* fetchContentLength calls awaited by recordAssetSize: url -> count
    itemsTotal, itemsLoaded,\* the loading manager's item counters
    modelInScene,           \* scene.add(model) has run
    animating,              \* a requestAnimationFrame(animate) callback is scheduled
    framesRendered,         \* calls of renderer.render
    materials,              \* per mesh of the model: its material and the build's candidate
    unmounted,              \* onBeforeUnmount has run
    glbRoot,                \* TRUE once glbRoot holds the loaded model (GLB build)
    meshes,                 \* per mesh of the model: [position, file], file the position
                            \* the model file gives it (one coordinate)
    originalPositions,      \* the Map of toggleExplode: mesh index -> stored position
    exploded                \* the exploded ref

svars == << build, now, pc, envState, modelState, content, requests, loading, errorMessage,
            loadMetrics, renderer, textureCache, assetSizeCache, recordedTextureAssets,
            textureLoadsInFlight, textureLoadStart, modelLoadStart, modelSizeRecorded,
            hasRenderedFirstFrame, textureDebug, probes, itemsTotal, itemsLoaded,
            modelInScene, animating, framesRendered, materials, unmounted, glbRoot,
            meshes, originalPositions, exploded >>
xvars == << meshes, originalPositions, exploded >>
vars == << rvars, svars >>

\* null where a number is expected (durations are >= 0, sizes > 0)
Null == -1
\* textureDebug.value.slice(-50)
DebugKeep == 50

EmptyMap == [x \in {} |-> 0]
Lookup(map, key) == IF key \in DOMAIN map THEN map[key] ELSE Null

EnvUrl == << << "hdr" >>, "studio_small_08_1k.hdr" >>
ModelUrl == IF build = "glb" THEN << << "glb" >>, "model.glb" >>
            ELSE << << "models" >>, "gearpump20251111.fbx" >>

\* the value in bytes the network would report for a url (transfer size or
\* content-length)
FileSize(url) ==
    IF url = ModelUrl THEN 8
    ELSE IF url[2] \in { "BaseColor", "a.png" } THEN 1
    ELSE IF url[2] \in { "Normal", "b.png" } THEN 2
    ELSE 4

\* the paths are absolute https urls, which new URL(path, origin).href keeps
toAbsoluteAssetUrl(path) == path

enableSizeProbeFallback == build = "fbx"

isCriticalAssetAny(url) == TRUE
isCriticalAsset(url) == (url = ModelUrl /\ build = "fbx") \/ url = EnvUrl

\* the session state as one record, so that a handler is a function of it
Cur ==
    [ pc |-> pc, envState |-> envState, modelState |-> modelState, content |-> content,
      requests |-> requests, loading |-> loading, errorMessage |-> errorMessage,
      loadMetrics |-> loadMetrics, renderer |-> renderer, textureCache |-> textureCache,
      assetSizeCache |-> assetSizeCache, recordedTextureAssets |-> recordedTextureAssets,
      textureLoadsInFlight |-> textureLoadsInFlight, textureLoadStart |-> textureLoadStart,
      modelLoadStart |-> modelLoadStart, modelSizeRecorded |-> modelSizeRecorded,
      hasRenderedFirstFrame |-> hasRenderedFirstFrame, textureDebug |-> textureDebug,
      probes |-> probes, itemsTotal |-> itemsTotal, itemsLoaded |-> itemsLoaded,
      modelInScene |-> modelInScene, animating |-> animating,
      framesRendered |-> framesRendered, materials |-> materials,
      unmounted |-> unmounted, glbRoot |-> glbRoot ]

\* F applied to the value of x, with x evaluated once
Then(x, F(_)) == CHOOSE y \in { F(v) : v \in { x } } : TRUE

Commit(st) ==
    \E s \in { st } :
        /\ pc' = s.pc /\ envState' = s.envState /\ modelState' = s.modelState
        /\ content' = s.content /\ requests' = s.requests /\ loading' = s.loading
        /\ errorMessage' = s.errorMessage /\ loadMetrics' = s.loadMetrics
        /\ renderer' = s.renderer /\ textureCache' = s.textureCache
        /\ assetSizeCache' = s.assetSizeCache
        /\ recordedTextureAssets' = s.recordedTextureAssets
        /\ textureLoadsInFlight' = s.textureLoadsInFlight
        /\ textureLoadStart' = s.textureLoadStart /\ modelLoadStart' = s.modelLoadStart
        /\ modelSizeRecorded' = s.modelSizeRecorded
        /\ hasRenderedFirstFrame' = s.hasRenderedFirstFrame
        /\ textureDebug' = s.textureDebug /\ probes' = s.probes
        /\ itemsTotal' = s.itemsTotal /\ itemsLoaded' = s.itemsLoaded
        /\ modelInScene' = s.modelInScene /\ animating' = s.animating
        /\ framesRendered' = s.framesRendered
        /\ materials' = s.materials /\ unmounted' = s.unmounted
        /\ glbRoot' = s.glbRoot
        /\ UNCHANGED << build, rvars, xvars >>

\* ------------------------------------------------------------------------
\* Telemetry
\* ------------------------------------------------------------------------
MetricItem(d, b) == [durationMs |-> d, sizeBytes |-> b]
NoMetrics == [total |-> MetricItem(Null, Null), model |-> MetricItem(Null, Null),
              textures |-> MetricItem(Null, Null)]

\* resets the metrics to zero, not to unknown
resetLoadTrackingToZero(st) ==
    [st EXCEPT !.loadMetrics = [total |-> MetricItem(0, 0), model |-> MetricItem(0, 0),
                                textures |-> MetricItem(0, 0)],
               !.textureLoadsInFlight = 0,
               !.textureLoadStart = Null, !.modelLoadStart = Null,
               !.modelSizeRecorded = FALSE, !.recordedTextureAssets = {},
               !.hasRenderedFirstFrame = FALSE]
resetLoadTracking(st) ==
    [st EXCEPT !.loadMetrics = NoMetrics, !.textureLoadsInFlight = 0,
               !.textureLoadStart = Null, !.modelLoadStart = Null,
               !.modelSizeRecorded = FALSE, !.recordedTextureAssets = {},
               !.hasRenderedFirstFrame = FALSE]

OrZero(v) == IF v = Null THEN 0 ELSE v

updateTotalSizeMetricTexturesOnly(st) ==
    Then(st, LAMBDA s :
        [s EXCEPT !.loadMetrics.total.sizeBytes = s.loadMetrics.textures.sizeBytes])
updateTotalSizeMetric(st) ==
    Then(st, LAMBDA s :
        LET modelBytes == OrZero(s.loadMetrics.model.sizeBytes)
            textureBytes == OrZero(s.loadMetrics.textures.sizeBytes)
            combined == modelBytes + textureBytes
        IN  [s EXCEPT !.loadMetrics.total.sizeBytes = IF combined > 0 THEN combined ELSE Null])

markFirstFrameRenderedSum(st) ==
    Then(st, LAMBDA s :
        IF s.hasRenderedFirstFrame \/ s.loading THEN s
        ELSE updateTotalSizeMetric(
                [s EXCEPT !.hasRenderedFirstFrame = TRUE,
                          !.loadMetrics.total.durationMs =
                                OrZero(s.loadMetrics.model.durationMs)
                                + OrZero(s.loadMetrics.textures.durationMs)]))
\* without the hasRenderedFirstFrame guard
markFirstFrameRenderedEveryFrame(st) ==
    Then(st, LAMBDA s :
        IF s.loading THEN s
        ELSE updateTotalSizeMetric(
                [s EXCEPT !.hasRenderedFirstFrame = TRUE,
                          !.loadMetrics.total.durationMs = now]))
markFirstFrameRendered(st) ==
    Then(st, LAMBDA s :
        IF s.hasRenderedFirstFrame \/ s.loading THEN s
        ELSE updateTotalSizeMetric(
                [s EXCEPT !.hasRenderedFirstFrame = TRUE,
                          !.loadMetrics.total.durationMs = now]))

\* the rest of recordAssetSize once knownSize is there
RecordKnownSize(st, type, absoluteUrl, knownSize) ==
    Then(st, LAMBDA s :
        IF knownSize # Null /\ knownSize > 0
        THEN updateTotalSizeMetric(
                IF type = "model"
                THEN [s EXCEPT !.assetSizeCache = (absoluteUrl :> knownSize) @@ @,
                               !.loadMetrics.model.sizeBytes = knownSize,
                               !.modelSizeRecorded = TRUE]
                ELSE [s EXCEPT !.assetSizeCache = (absoluteUrl :> knownSize) @@ @,
                               !.recordedTextureAssets = @ \cup { absoluteUrl },
                               !.loadMetrics.textures.sizeBytes = OrZero(@) + knownSize])
        ELSE s)

\* recordAssetSize up to its await; transferSize is what readPerformanceTransferSize
\* returns for the url
recordAssetSize(st, type, path, transferSize) ==
    Then(st, LAMBDA s :
        LET absoluteUrl == toAbsoluteAssetUrl(path)
            cached == Lookup(s.assetSizeCache, absoluteUrl)
            sync == IF cached # Null THEN cached ELSE transferSize
        IN  IF type = "texture" /\ absoluteUrl \in s.recordedTextureAssets THEN s
            ELSE IF type = "model" /\ s.modelSizeRecorded THEN s
            ELSE IF sync # Null THEN RecordKnownSize(s, type, absoluteUrl, sync)
            ELSE IF enableSizeProbeFallback
                 THEN [s EXCEPT !.probes =
                            (absoluteUrl :> (OrZero(Lookup(s.probes, absoluteUrl)) + 1)) @@ @]
                 ELSE s)

markModelLoadStart(st) ==
    [st EXCEPT !.modelLoadStart = now, !.loadMetrics.model.durationMs = Null]

markModelLoadEnd(st, path, transferSize) ==
    Then(st, LAMBDA s :
        recordAssetSize(
            [s EXCEPT !.loadMetrics.model.durationMs =
                            IF s.modelLoadStart # Null THEN now - s.modelLoadStart ELSE @,
                      !.modelLoadStart = Null],
            "model", path, transferSize))

\* counts a load only when it opens a batch
markTextureLoadStartFirstOnly(st) ==
    Then(st, LAMBDA s :
        IF s.textureLoadStart = Null
        THEN [s EXCEPT !.textureLoadStart = now, !.loadMetrics.textures.durationMs = Null,
                       !.textureLoadsInFlight = @ + 1]
        ELSE s)
markTextureLoadStart(st) ==
    Then(st, LAMBDA s :
        IF s.textureLoadStart = Null
        THEN [s EXCEPT !.textureLoadStart = now, !.loadMetrics.textures.durationMs = Null,
                       !.textureLoadsInFlight = @ + 1]
        ELSE [s EXCEPT !.textureLoadsInFlight = @ + 1])

\* sets the duration at every completion, not only at the last one
markTextureLoadEndEach(st, path, transferSize) ==
    Then(st, LAMBDA s :
        recordAssetSize(
            IF s.textureLoadStart # Null
            THEN [s EXCEPT !.textureLoadsInFlight = IF @ - 1 > 0 THEN @ - 1 ELSE 0,
                           !.loadMetrics.textures.durationMs = now - s.textureLoadStart]
            ELSE [s EXCEPT !.textureLoadsInFlight = IF @ - 1 > 0 THEN @ - 1 ELSE 0],
            "texture", path, transferSize))
markTextureLoadEnd(st, path, transferSize) ==
    Then(st, LAMBDA s :
        LET left == IF s.textureLoadsInFlight - 1 > 0 THEN s.textureLoadsInFlight - 1 ELSE 0
        IN  recordAssetSize(
                IF left = 0 /\ s.textureLoadStart # Null
                THEN [s EXCEPT !.textureLoadsInFlight = left,
                               !.loadMetrics.textures.durationMs = now - s.textureLoadStart,
                               !.textureLoadStart = Null]
                ELSE [s EXCEPT !.textureLoadsInFlight = left],
                "texture", path, transferSize))

LastN(seq, n) == IF Len(seq) <= n THEN seq ELSE SubSeq(seq, Len(seq) - n + 1, Len(seq))

\* only the GLB build keeps the trace
pushTextureDebug(st, entry) ==
    IF build = "glb"
    THEN [st EXCEPT !.textureDebug = Append(LastN(@, DebugKeep), entry)]
    ELSE st

\* ------------------------------------------------------------------------
\* Loading manager (items started and ended by the loaders) and its callbacks
\* ------------------------------------------------------------------------
\* onLoad leaving the loading flag alone
onLoadKeepsLoading(st) == st
onLoad(st) == [st EXCEPT !.loading = FALSE]

onError(st, url) ==
    IF isCriticalAsset(url)
    THEN [st EXCEPT !.errorMessage = "Critical asset failed", !.loading = FALSE]
    ELSE st

itemStart(st) == [st EXCEPT !.itemsTotal = @ + 1]
itemEnd(st) ==
    Then(st, LAMBDA s :
        IF s.itemsLoaded + 1 = s.itemsTotal
        THEN onLoad([s EXCEPT !.itemsLoaded = @ + 1])
        ELSE [s EXCEPT !.itemsLoaded = @ + 1])
itemError(st, url) == onError(st, url)

\* ------------------------------------------------------------------------
\* Texture requests and material builds
\* ------------------------------------------------------------------------
Pending(state) == state \in { "inflight", "fetched" }
Settled(st) ==
    \E s \in { st } : \A r \in 1..Len(s.requests) : ~Pending(s.requests[r].state)

\* buildMaterialForMesh up to its await: whether it goes on to return a candidate
\* (created) and the texture loads it asks for, in textureMeta order
buildMaterialForMesh(b) ==
    IF build = "fbx"
    THEN Then(resolveManifestInfo(b.mesh, b.material), LAMBDA manifestInfo :
            LET wanted == SelectSeq(Channels, LAMBDA c : manifestInfo.textures[c] # NoFile)
            IN  IF manifestInfo = NullInfo THEN [created |-> FALSE, wanted |-> << >>]
                ELSE [created |-> TRUE,
                      wanted |-> [i \in 1..Len(wanted) |->
                       [path |-> << manifestInfo.partKey, manifestInfo.textures[wanted[i]] >>,
                        part |-> manifestInfo.partKey, variant |-> manifestInfo.variantKey,
                        channel |-> wanted[i]]]])
    ELSE Then(glbFindPartKeyFromObject(b.mesh, b.material), LAMBDA partKey :
            LET variantRaw == Coalesce(Coalesce(extractVariantName(b.material),
                                                extractVariantName(b.mesh.name)),
                                       extractVariantName(partKey))
            IN  Then(resolveVariantKey(variantRaw), LAMBDA variantKey :
                    [created |-> TRUE,
                     wanted |-> [i \in 1..Len(Channels) |->
                        [path |-> buildSharedTextureFileName(variantKey, Channels[i]),
                         part |-> partKey, variant |-> variantFileNameMap(variantKey),
                         channel |-> Channels[i]]]]))

NoMaps == [c \in { "BaseColor", "Normal", "ORM" } |-> 0]

\* applyMaterialsToMesh after its await of buildMaterialForMesh, for mesh i
applyMaterialsToMesh(st, i) ==
    Then(st, LAMBDA s :
        LET existing == s.materials[i].material
            created == s.materials[i].created
        IN  [s EXCEPT !.materials[i].resolved = TRUE,
                      !.materials[i].material =
                            IF created THEN "candidate"
                            ELSE IF s.content[i].isArray THEN existing
                            ELSE IF existing # "standard" THEN "default"
                            ELSE existing])

\* the build returns without waiting for its texture loads
BuildSettledEarly(st, i) ==
    Then(st, LAMBDA s : IF ~s.materials[i].resolved THEN applyMaterialsToMesh(s, i) ELSE s)
\* the Promise.all of buildMaterialForMesh: once no texture load of mesh i is
\* pending the build returns and applyMaterialsToMesh goes on
BuildSettled(st, i) ==
    Then(st, LAMBDA s :
        IF /\ ~s.materials[i].resolved
           /\ \A r \in 1..Len(s.requests) :
                    s.requests[r].task = i => ~Pending(s.requests[r].state)
        THEN applyMaterialsToMesh(s, i)
        ELSE s)

\* a cache hit counted as a started load
loadTextureCountsHit(st, want) ==
    Then(st, LAMBDA s :
        IF want.path \in DOMAIN s.textureCache
        THEN markTextureLoadStart(
                [s EXCEPT !.requests = Append(@, [want EXCEPT !.state = "hit",
                                                          !.handle = s.textureCache[want.path]]),
                          !.materials[want.task].maps[want.channel] = s.textureCache[want.path]])
        ELSE LET joined == build = "glb" /\ \E r \in 1..Len(s.requests) :
                                /\ s.requests[r].path = want.path
                                /\ s.requests[r].state = "inflight"
                 started == markTextureLoadStart(
                                [s EXCEPT !.requests = Append(@, [want EXCEPT !.state = "inflight"])])
             IN  IF joined THEN started ELSE itemStart(started))
\* loadTexture up to loader.load. The texture loader counts one manager item per
\* call; the file loader behind the KTX2 loader joins a call to a fetch of the same
\* url that is under way and counts no item for it.
loadTexture(st, want) ==
    Then(st, LAMBDA s :
        IF want.path \in DOMAIN s.textureCache
        THEN [s EXCEPT !.requests = Append(@, [want EXCEPT !.state = "hit",
                                                          !.handle = s.textureCache[want.path]]),
                       !.materials[want.task].maps[want.channel] = s.textureCache[want.path]]
        ELSE LET joined == build = "glb" /\ \E r \in 1..Len(s.requests) :
                                /\ s.requests[r].path = want.path
                                /\ s.requests[r].state = "inflight"
                 started == markTextureLoadStart(
                                [s EXCEPT !.requests = Append(@, [want EXCEPT !.state = "inflight"])])
             IN  IF joined THEN started ELSE itemStart(started))

RECURSIVE LoadTextures(_, _, _, _)
LoadTextures(st, wanted, task, i) ==
    IF i > Len(wanted) THEN st
    ELSE Then(loadTexture(st, [path |-> wanted[i].path, part |-> wanted[i].part,
                               variant |-> wanted[i].variant, state |-> "new",
                               handle |-> 0, task |-> task,
                               channel |-> wanted[i].channel]),
              LAMBDA s : LoadTextures(s, wanted, task, i + 1))

\* the traverse of the loaded model: every mesh starts its material builds, and
\* every build calls loadTexture for its channels before anything is awaited; a
\* build with nothing to wait for is over before the model's callback goes on
RECURSIVE ApplyMaterials(_, _, _)
ApplyMaterials(st, builds, i) ==
    IF i > Len(builds) THEN st
    ELSE Then(Then(buildMaterialForMesh(builds[i]), LAMBDA built :
                    BuildSettled(
                        LoadTextures(
                            [st EXCEPT !.materials =
                                Append(@, [material |-> builds[i].existing,
                                           created |-> built.created,
                                           maps |-> NoMaps, resolved |-> FALSE])],
                            built.wanted, i, 1),
                        i)),
              LAMBDA s : ApplyMaterials(s, builds, i + 1))

DebugEntry(req, status) ==
    [path |-> req.path, status |-> status, part |-> req.part, variant |-> req.variant]

\* the success callback given to loader.load
TextureSucceeded(st, r, texture, transferSize) ==
    Then(st, LAMBDA s :
        BuildSettled(
            pushTextureDebug(
                markTextureLoadEnd(
                    [s EXCEPT !.requests[r].state = "ok", !.requests[r].handle = texture,
                              !.textureCache = (s.requests[r].path :> texture) @@ @,
                              !.materials[s.requests[r].task].maps[s.requests[r].channel] =
                                    texture],
                    s.requests[r].path, transferSize),
                DebugEntry(s.requests[r], "success")),
            s.requests[r].task))

\* without the catch around the await: the failure rejects the build and the model
TextureErroredRejects(st, r, transferSize) ==
    Then(st, LAMBDA s :
        [markTextureLoadEnd([s EXCEPT !.requests[r].state = "fail"],
                            s.requests[r].path, transferSize)
            EXCEPT !.modelState = "rejected", !.pc = "failed", !.loading = FALSE,
                   !.errorMessage = "error.message"])
\* the error callback given to loader.load
TextureErrored(st, r, transferSize) ==
    Then(st, LAMBDA s :
        BuildSettled(
            pushTextureDebug(
                markTextureLoadEnd([s EXCEPT !.requests[r].state = "fail"],
                                   s.requests[r].path, transferSize),
                DebugEntry(s.requests[r], "fail")),
            s.requests[r].task))

RECURSIVE SucceedAll(_, _, _, _)
SucceedAll(st, rs, texture, transferSize) ==
    IF rs = {} THEN st
    ELSE Then(TextureSucceeded(st, SetMin(rs), texture, transferSize),
              LAMBDA s : SucceedAll(s, rs \ { SetMin(rs) }, texture, transferSize))

RECURSIVE FailAll(_, _, _)
FailAll(st, rs, transferSize) ==
    IF rs = {} THEN st
    ELSE Then(TextureErrored(st, SetMin(rs), transferSize),
              LAMBDA s : FailAll(s, rs \ { SetMin(rs) }, transferSize))

\* the requests served together with request r: the KTX2 loader serves every call
\* that joined one fetch from one transcode; the texture loader serves each alone
Served(r) ==
    IF build = "glb"
    THEN { q \in 1..Len(requests) : /\ requests[q].path = requests[r].path
                                    /\ requests[q].state = requests[r].state }
    ELSE { r }

\* the cache cleared, but the frame not cancelled and the renderer kept
disposeResourcesKeepsLoop(st) == [st EXCEPT !.textureCache = EmptyMap]
\* cancelAnimationFrame, the cache cleared, scene, camera and renderer set to null
disposeResources(st) ==
    [st EXCEPT !.renderer = FALSE, !.animating = FALSE, !.textureCache = EmptyMap]

\* ------------------------------------------------------------------------
\* initScene and what follows its awaits
\* ------------------------------------------------------------------------
animate(st) ==
    Then(st, LAMBDA s :
        IF ~s.renderer THEN s
        ELSE markFirstFrameRendered([s EXCEPT !.animating = TRUE, !.framesRendered = @ + 1]))

CatchInitSceneSilent(st, message) == [st EXCEPT !.pc = "failed"]
\* the catch of onMounted; message is error.message or the fallback text
CatchInitScene(st, message) ==
    [st EXCEPT !.loading = FALSE, !.errorMessage = message, !.pc = "failed"]

\* loadGlb / loadFbx up to loader.load. One manager item stands for the model: the
\* GLTF loader's own item spans the fetch, the parse and the load callback, and the
\* item of the file fetch inside it ends earlier.
loadModel(st) == itemStart(markModelLoadStart(st))

\* initScene after await loadEnvironmentMap()
AfterEnv(st) == [loadModel(st) EXCEPT !.modelState = "loading", !.pc = "awaitModel"]

\* initScene after the await of the model: scene.add throws when the scene is gone
AfterModel(st) ==
    Then(st, LAMBDA s :
        IF ~s.renderer THEN CatchInitScene([s EXCEPT !.glbRoot = (build = "glb")], "error.message")
        ELSE animate([s EXCEPT !.glbRoot = (build = "glb"), !.modelInScene = TRUE,
                               !.pc = "done"]))

\* the model's load callback after await Promise.all(applyTasks)
ModelResolved(st, transferSize) ==
    Then(st, LAMBDA s :
        IF s.modelState = "parsed" /\ \A i \in 1..Len(s.materials) : s.materials[i].resolved
        THEN AfterModel(markModelLoadEnd([s EXCEPT !.modelState = "resolved"],
                                         ModelUrl, transferSize))
        ELSE s)

\* ------------------------------------------------------------------------
\* The scene session: inputs and actions
\* ------------------------------------------------------------------------
PartA == << "a" >>
PartB == << "B" >>
VariantA == << "m", "a", "t", "A" >>
SessionManifest ==
    << [key |-> PartA,
        variants |-> << [key |-> VariantA,
                         textures |-> [c \in { "BaseColor", "Normal", "ORM" } |->
                                        IF c = "BaseColor" THEN "a.png" ELSE NoFile]] >>],
       [key |-> PartB,
        variants |-> << [key |-> VariantA,
                         textures |-> [c \in { "BaseColor", "Normal", "ORM" } |->
                                        IF c = "BaseColor" THEN "b.png" ELSE NoFile]] >>] >>

Leaf(name) == [name |-> name, parents |-> << >>]
\* meshes of the manifest build: of part a, of part B, of no part
\* existing: the material the loader gave the mesh, a MeshStandardMaterial (GLTF
\* loader) or another kind (FBX loader: Phong or Lambert); isArray: mesh.material
\* is an array (of that one material)
FbxBuilds == { [mesh |-> Leaf(<< "a" >>), material |-> NullName,
                existing |-> "other", isArray |-> FALSE],
               [mesh |-> Leaf(<< "b" >>), material |-> NullName,
                existing |-> "other", isArray |-> FALSE],
               [mesh |-> Leaf(<< "-" >>), material |-> NullName,
                existing |-> "other", isArray |-> FALSE] }
\* a mesh of the GLB build: "4_a_1" with material "matPaint"
GlbBuilds == { [mesh |-> Leaf(<< "4", "_", "a", "_", "1" >>),
                material |-> << "m", "a", "t", "P", "a", "i", "n", "t" >>,
                existing |-> "standard", isArray |-> FALSE] }
Contents == Strs(IF build = "glb" THEN GlbBuilds ELSE FbxBuilds, MaxBuilds)

TransferSizes(url) == { Null, FileSize(url) }

SessionStart ==
    /\ now = 0 /\ pc = "init" /\ envState = "idle" /\ modelState = "idle"
    /\ content = << >> /\ requests = << >>
    /\ loading = TRUE /\ errorMessage = "" /\ loadMetrics = NoMetrics
    /\ renderer = FALSE
    /\ textureCache = EmptyMap /\ assetSizeCache = EmptyMap /\ recordedTextureAssets = {}
    /\ textureLoadsInFlight = 0 /\ textureLoadStart = Null /\ modelLoadStart = Null
    /\ modelSizeRecorded = FALSE /\ hasRenderedFirstFrame = FALSE
    /\ textureDebug = << >> /\ probes = EmptyMap
    /\ itemsTotal = 0 /\ itemsLoaded = 0
    /\ modelInScene = FALSE /\ animating = FALSE /\ framesRendered = 0
    /\ materials = << >> /\ unmounted = FALSE
    /\ glbRoot = FALSE /\ originalPositions = EmptyMap /\ exploded = FALSE

\* the session before onMounted, of a model whose mesh positions are left out
SessionIdle == SessionStart /\ meshes = << >>

ResolverIdle ==
    /\ manifestData = (IF build = "fbx" THEN SessionManifest ELSE << >>)
    /\ inMesh = Leaf(<< >>) /\ inMaterial = NullName
    /\ outPartKey = Unset /\ outToken = Unset /\ outInfo = UnsetInfo

Init == build \in { "glb", "fbx" } /\ SessionIdle /\ ResolverIdle

\* onMounted: initScene up to await loadEnvironmentMap()
Mount ==
    /\ pc = "init"
    /\ Commit(itemStart([resetLoadTracking(Cur) EXCEPT !.renderer = TRUE,
                                                       !.envState = "loading",
                                                       !.pc = "awaitEnv"]))
    /\ UNCHANGED now

Tick ==
    /\ now < MaxTime
    /\ now' = now + 1
    /\ UNCHANGED << rvars, build, pc, envState, modelState, content, requests, loading,
                    errorMessage, loadMetrics, renderer, textureCache, assetSizeCache,
                    recordedTextureAssets, textureLoadsInFlight, textureLoadStart,
                    modelLoadStart, modelSizeRecorded, hasRenderedFirstFrame, textureDebug,
                    probes, itemsTotal, itemsLoaded, modelInScene, animating,
                    framesRendered, materials, unmounted, glbRoot, xvars >>

\* the environment map arrives: the load callback resolves the promise, initScene
\* goes on to request the model, then the file loader ends the manager item. With
\* pmremGenerator null the callback throws, the promise stays pending and the file
\* loader reports the error to the manager.
EnvLoaded ==
    /\ envState = "loading"
    /\ Commit(IF renderer
              THEN itemEnd(AfterEnv([Cur EXCEPT !.envState = "loaded"]))
              ELSE itemEnd(itemError([Cur EXCEPT !.envState = "threw"], EnvUrl)))
    /\ UNCHANGED now

ErrorTexts == { "error.message", "Unknown error, check console" }

EnvFailed ==
    /\ envState = "loading"
    /\ \E message \in ErrorTexts :
        Commit(CatchInitScene(itemEnd(itemError([Cur EXCEPT !.envState = "failed"], EnvUrl)),
                              message))
    /\ UNCHANGED now

\* the model arrives: the load callback starts the material builds; the manager
\* item ends right after the callback (GLTF loader) or around the time the
\* callback's await goes on (FBX loader)
ModelArrived(builds) ==
    /\ modelState = "loading"
    /\ \E transferSize \in TransferSizes(ModelUrl),
          managerFirst \in (IF build = "glb" THEN { TRUE } ELSE BOOLEAN) :
        LET s1 == ApplyMaterials([Cur EXCEPT !.modelState = "parsed", !.content = builds],
                                 builds, 1)
        IN  Commit(IF managerFirst THEN ModelResolved(itemEnd(s1), transferSize)
                   ELSE itemEnd(ModelResolved(s1, transferSize)))
    /\ UNCHANGED now

ModelLoaded == \E builds \in Contents : ModelArrived(builds)

ModelFailed ==
    /\ modelState = "loading"
    /\ \E message \in ErrorTexts :
        Commit(CatchInitScene(itemEnd(itemError([Cur EXCEPT !.modelState = "failed"], ModelUrl)),
                              message))
    /\ UNCHANGED now

\* GLB build: the file of a KTX2 texture is fetched; its manager item ends and the
\* transcode starts
TextureFetched(r) ==
    /\ build = "glb"
    /\ requests[r].state = "inflight" /\ r = SetMin(Served(r))
    /\ Commit(itemEnd([Cur EXCEPT !.requests =
                        [q \in 1..Len(requests) |->
                            IF q \in Served(r) THEN [requests[q] EXCEPT !.state = "fetched"]
                            ELSE requests[q]]]))
    /\ UNCHANGED now

\* what readPerformanceTransferSize gives markModelLoadEnd when the completion of
\* request r lets the model's callback go on; not read otherwise
ModelSizesAfter(r) ==
    IF \A q \in 1..Len(requests) : Pending(requests[q].state) => q \in Served(r)
    THEN TransferSizes(ModelUrl)
    ELSE { Null }

TextureLoaded(r) ==
    /\ requests[r].state = (IF build = "glb" THEN "fetched" ELSE "inflight")
    /\ r = SetMin(Served(r))
    /\ \E transferSize \in TransferSizes(requests[r].path),
          modelSize \in ModelSizesAfter(r) :
        LET done == SucceedAll(Cur, Served(r), r, transferSize)
        IN  Commit(ModelResolved(IF build = "glb" THEN done ELSE itemEnd(done), modelSize))
    /\ UNCHANGED now

TextureFailed(r) ==
    /\ Pending(requests[r].state) /\ r = SetMin(Served(r))
    /\ \E transferSize \in TransferSizes(requests[r].path),
          modelSize \in ModelSizesAfter(r) :
        LET done == FailAll(Cur, Served(r), transferSize)
        IN  Commit(ModelResolved(IF requests[r].state = "inflight"
                                 THEN itemEnd(itemError(done, requests[r].path))
                                 ELSE done,
                                 modelSize))
    /\ UNCHANGED now

\* a fetchContentLength awaited by recordAssetSize returns
ProbeReturned(url) ==
    /\ \E result \in TransferSizes(url) :
        LET left == IF probes[url] > 1 THEN (url :> (probes[url] - 1)) @@ probes
                    ELSE [u \in DOMAIN probes \ { url } |-> probes[u]]
        IN  Commit(RecordKnownSize([Cur EXCEPT !.probes = left],
                                   IF url = ModelUrl THEN "model" ELSE "texture", url, result))
    /\ UNCHANGED now

\* a scheduled animation frame
Frame ==
    /\ animating /\ framesRendered < MaxFrames
    /\ Commit(animate(Cur))
    /\ UNCHANGED now

\* onBeforeUnmount: disposeResources
Dispose ==
    /\ pc # "init" /\ ~unmounted
    /\ Commit(disposeResources([Cur EXCEPT !.unmounted = TRUE]))
    /\ UNCHANGED now

Next ==
    \/ Mount \/ Tick \/ EnvLoaded \/ EnvFailed \/ ModelLoaded \/ ModelFailed
    \/ \E r \in 1..Len(requests) : TextureFetched(r)
    \/ \E r \in 1..Len(requests) : TextureLoaded(r)
    \/ \E r \in 1..Len(requests) : TextureFailed(r)
    \/ \E url \in DOMAIN probes : ProbeReturned(url)
    \/ Frame \/ Dispose

Spec == Init /\ [][Next]_vars

\* ------------------------------------------------------------------------
\* Texture cache, C1
\* ------------------------------------------------------------------------
\* the requests of a path for which loader.load was called
LoadCalls(path) ==
    { r \in 1..Len(requests) : requests[r].path = path /\ requests[r].state # "hit" }
Resolved(r) == requests[r].state \in { "ok", "hit" }

\* C1: any two loadTexture requests of one session for the same path cause exactly
\* one loader.load for that path, and once both have resolved they hold the same
\* texture handle.
C1_OneLoadOneHandle ==
    \A i, j \in 1..Len(requests) :
        (i < j /\ requests[i].path = requests[j].path)
            => /\ Cardinality(LoadCalls(requests[i].path)) = 1
               /\ (Resolved(i) /\ Resolved(j)) => requests[i].handle = requests[j].handle

\* ------------------------------------------------------------------------
\* Size metrics, C2 and C3
\* ------------------------------------------------------------------------
RECURSIVE SumSizes(_)
SumSizes(urls) ==
    IF urls = {} THEN 0
    ELSE LET u == CHOOSE x \in urls : TRUE IN FileSize(u) + SumSizes(urls \ { u })

\* C2: textures.sizeBytes is the sum of the sizes of the distinct texture urls
\* recorded; the size of one url is added at most once.
C2_EachUrlCountedOnce ==
    OrZero(loadMetrics.textures.sizeBytes) = SumSizes(recordedTextureAssets)

\* C3: total.sizeBytes is model.sizeBytes + textures.sizeBytes, an unknown side
\* counted as 0, whenever one of the two is known, and is null only when both are
\* unknown.
C3_TotalSizeIsSum ==
    loadMetrics.total.sizeBytes =
        (IF loadMetrics.model.sizeBytes = Null /\ loadMetrics.textures.sizeBytes = Null
         THEN Null
         ELSE OrZero(loadMetrics.model.sizeBytes) + OrZero(loadMetrics.textures.sizeBytes))

\* both sides known, and added up
C3_Witness ==
    /\ loadMetrics.model.sizeBytes # Null /\ loadMetrics.textures.sizeBytes # Null
    /\ loadMetrics.total.sizeBytes
         = loadMetrics.model.sizeBytes + loadMetrics.textures.sizeBytes

\* ------------------------------------------------------------------------
\* Duration metrics, C4 and C5
\* ------------------------------------------------------------------------
\* C4 as stated: whenever total.durationMs is non-null it is the sum of
\* model.durationMs and textures.durationMs.
C4_TotalDurationIsSum ==
    loadMetrics.total.durationMs # Null
        => loadMetrics.total.durationMs
             = OrZero(loadMetrics.model.durationMs) + OrZero(loadMetrics.textures.durationMs)

\* C4 amended: total.durationMs is written once, by the first frame rendered while
\* loading is false, and it is the clock reading at that frame, whatever the model
\* and texture durations are.
C4_TotalDurationIsFirstFrameTime ==
    [][ loadMetrics'.total.durationMs # loadMetrics.total.durationMs
            => /\ loadMetrics.total.durationMs = Null
               /\ loadMetrics'.total.durationMs = now
               /\ ~hasRenderedFirstFrame /\ hasRenderedFirstFrame'
               /\ framesRendered' = framesRendered + 1
               /\ ~loading' ]_vars

\* the first frame came at the last clock reading, later than the loads took
C4_Witness ==
    /\ hasRenderedFirstFrame
    /\ loadMetrics.total.durationMs = MaxTime
    /\ loadMetrics.model.durationMs = 0

\* C5: with N texture requests started before any completes, textures.durationMs
\* stays null while one of them is in flight; the completion that brings
\* textureLoadsInFlight to zero sets it to the time of that completion minus the
\* time of the first request start.
C5_DurationAtLastCompletion ==
    [][ /\ textureLoadsInFlight' > 0 => loadMetrics'.textures.durationMs = Null
        /\ (textureLoadsInFlight > 0 /\ textureLoadsInFlight' = 0)
              => loadMetrics'.textures.durationMs = now - textureLoadStart ]_vars

\* two requests, both settled, the last one after the clock moved on
C5_Witness ==
    /\ Len(requests) >= 2 /\ Settled(Cur)
    /\ \E r \in 1..Len(requests) : requests[r].state = "fail"
    /\ loadMetrics.textures.durationMs > 0

\* ------------------------------------------------------------------------
\* Debug trace, C8
\* ------------------------------------------------------------------------
DebugBuilds == 17      \* meshes of the model; each asks for three textures

InitDebug == build = "glb" /\ SessionIdle /\ ResolverIdle

ModelLoadedLarge ==
    \E m \in GlbBuilds : ModelArrived([i \in 1..DebugBuilds |-> m])

NextDebug ==
    \/ Mount \/ Tick \/ EnvLoaded \/ ModelLoadedLarge
    \/ \E r \in 1..Len(requests) : TextureFetched(r)
    \/ \E r \in 1..Len(requests) : TextureLoaded(r)
    \/ \E r \in 1..Len(requests) : TextureFailed(r)
    \/ Frame

SpecDebug == InitDebug /\ [][NextDebug]_vars

\* C8: after any number of texture load attempts the debug trace holds at most 50
\* entries.
C8_AtMostFiftyEntries == Len(textureDebug) <= DebugKeep

\* ------------------------------------------------------------------------
\* The loading flag, C9 and C10
\* ------------------------------------------------------------------------
NoEnvModelFailure == envState \notin { "failed", "threw" } /\ modelState # "failed"
NoTextureFailure == \A r \in 1..Len(requests) : requests[r].state # "fail"

\* C9 as stated: absent any load failure, loading is false only when the
\* environment map and the model with all its textures have resolved or the manager
\* has seen every asset settled, and never while the model or one of its textures
\* is pending or not yet requested.
C9_NeverFalseWhilePending ==
    (~loading /\ NoEnvModelFailure /\ NoTextureFailure)
        => /\ envState = "loaded"
           /\ modelState = "resolved" \/ itemsLoaded = itemsTotal
           /\ modelState \in { "parsed", "resolved" }
           /\ Settled(Cur)

\* C9 amended: absent a failure of the environment map or the model file, loading
\* is false only when the environment map is loaded, the model file is loaded with
\* all its texture loads started, and the manager has seen every item it tracks
\* end; in the manifest build no texture is pending then, in the GLB build a
\* texture whose file is fetched may still be transcoding.
C9_FalseOnlyWhenManagerDone ==
    (~loading /\ NoEnvModelFailure)
        => /\ envState = "loaded"
           /\ modelState \in { "parsed", "resolved" }
           /\ itemsLoaded = itemsTotal
           /\ build = "fbx" => Settled(Cur)

\* loading is false, nothing failed, and a fetched texture is still transcoding
C9_Witness ==
    /\ ~loading /\ errorMessage = "" /\ NoEnvModelFailure /\ NoTextureFailure
    /\ modelState = "parsed"
    /\ \E r \in 1..Len(requests) : requests[r].state = "fetched"

\* C10: once the environment map or the model file has failed to load, loading is
\* false, errorMessage is not empty, the model is not in the scene and the render
\* loop has not started.
C10_FailureStopsLoading ==
    (envState = "failed" \/ modelState = "failed")
        => /\ ~loading /\ errorMessage # ""
           /\ ~modelInScene /\ ~animating /\ framesRendered = 0

\* the model file of the GLB build, which onError does not hold critical, failed
C10_Witness ==
    /\ build = "glb" /\ modelState = "failed"
    /\ ~loading /\ errorMessage = "error.message" /\ ~modelInScene

\* ------------------------------------------------------------------------
\* Texture failures and materials, C11
\* ------------------------------------------------------------------------
TaskSettled(i) ==
    \A r \in 1..Len(requests) : requests[r].task = i => ~Pending(requests[r].state)

\* C11: a failed texture load rejects neither the material build nor the model and
\* sets no errorMessage: the failed channel's slot stays unset, the channels that
\* loaded are bound, and once every load has settled the model is in the scene with
\* every mesh carrying its built material, and is rendered (the component still
\* mounted, the environment map and the model file loaded).
C11_TextureFailureTolerated ==
    /\ \A r \in 1..Len(requests) :
          /\ requests[r].state = "fail"
                => materials[requests[r].task].maps[requests[r].channel] = 0
          /\ requests[r].state \in { "ok", "hit" }
                => /\ requests[r].handle # 0
                   /\ materials[requests[r].task].maps[requests[r].channel]
                        = requests[r].handle
    /\ (~unmounted /\ NoEnvModelFailure) => errorMessage = "" /\ pc # "failed"
    /\ ( /\ ~unmounted /\ modelState \in { "parsed", "resolved" }
         /\ \A i \in 1..Len(materials) : TaskSettled(i) )
            => /\ modelState = "resolved" /\ modelInScene /\ framesRendered >= 1
               /\ \A i \in 1..Len(materials) :
                    materials[i].created
                        => materials[i].resolved /\ materials[i].material = "candidate"

\* one channel of a mesh failed, another of the same mesh loaded, and the model is
\* in the scene and rendered with no error shown
C11_Witness ==
    /\ errorMessage = "" /\ modelInScene /\ framesRendered >= 1
    /\ \E r, q \in 1..Len(requests) :
          /\ requests[r].task = requests[q].task
          /\ requests[r].state = "fail" /\ requests[q].state = "ok"
          /\ materials[requests[r].task].material = "candidate"
          /\ materials[requests[r].task].maps[requests[r].channel] = 0
          /\ materials[requests[q].task].maps[requests[q].channel] # 0

\* ------------------------------------------------------------------------
\* Meshes of no manifest entry, C12
\* ------------------------------------------------------------------------
\* meshes of the manifest build whose material is an array or single: of part a
\* and of no part
FallbackBuilds == { [mesh |-> Leaf(<< n >>), material |-> NullName,
                     existing |-> "other", isArray |-> a] :
                        n \in { "a", "-" }, a \in BOOLEAN }

InitFallback == build = "fbx" /\ SessionIdle /\ ResolverIdle

ModelLoadedFallback ==
    \E builds \in Strs(FallbackBuilds, MaxBuilds) : ModelArrived(builds)

NextFallback ==
    \/ Mount \/ Tick \/ EnvLoaded \/ ModelLoadedFallback
    \/ \E r \in 1..Len(requests) : TextureLoaded(r)
    \/ \E r \in 1..Len(requests) : TextureFailed(r)
    \/ \E url \in DOMAIN probes : ProbeReturned(url)
    \/ Frame

SpecFallback == InitFallback /\ [][NextFallback]_vars

\* C12: in the manifest build a mesh that resolves to no manifest entry ends with
\* the flat default material, whatever material it carried before and whether its
\* material was single or an array.
C12_NoEntryGetsFlatDefault ==
    \A i \in 1..Len(materials) :
        (build = "fbx" /\ materials[i].resolved /\ ~materials[i].created)
            => materials[i].material = "default"

\* ------------------------------------------------------------------------
\* After disposeResources, C13 and C14
\* ------------------------------------------------------------------------
\* C13: after disposeResources has run, the completion of a load that was in
\* flight is a no-op: the texture cache stays empty and loadMetrics, the in-flight
\* counter, the debug trace, loading and errorMessage do not change.
C13_CompletionAfterDisposeIsNoOp ==
    [][ unmounted
            => /\ textureCache' = EmptyMap
               /\ UNCHANGED << loadMetrics, textureLoadsInFlight, textureDebug,
                               loading, errorMessage >> ]_vars

\* C14: once disposeResources has run no further frame is rendered, whether the
\* render loop was running or initScene was still awaiting the environment map or
\* the model.
C14_NoFrameAfterDispose ==
    [][ unmounted => framesRendered' = framesRendered ]_vars

\* disposed while initScene awaited the model; the model resolved afterwards and
\* was neither added to the scene nor rendered
C14_Witness ==
    /\ unmounted /\ modelState = "resolved"
    /\ ~modelInScene /\ ~animating /\ framesRendered = 0

\* ------------------------------------------------------------------------
\* Order of the model's completion, C15
\* ------------------------------------------------------------------------
\* C15: the model is added to the scene, and model.durationMs is recorded, only
\* after the material build of every mesh has resolved; the build of a mesh
\* resolves only after every channel load started for that mesh has settled.
C15_ModelAfterAllBuilds ==
    /\ (modelInScene \/ loadMetrics.model.durationMs # Null)
            => /\ Len(materials) = Len(content)
               /\ \A i \in 1..Len(materials) : materials[i].resolved
    /\ \A i \in 1..Len(materials) : materials[i].resolved => TaskSettled(i)

\* a model of MaxBuilds meshes with a load each, in the scene after the clock moved
\* on while the loads were in flight
C15_Witness ==
    /\ modelInScene /\ loadMetrics.model.durationMs = MaxTime
    /\ Len(materials) = MaxBuilds /\ Len(requests) >= MaxBuilds
    /\ \A i \in 1..Len(materials) : materials[i].created /\ materials[i].resolved

C20_TotalDurationWrittenOnce ==
    [][ /\ loadMetrics.total.durationMs # Null
            => loadMetrics'.total.durationMs = loadMetrics.total.durationMs
        /\ loadMetrics'.total.durationMs # loadMetrics.total.durationMs
            => framesRendered' = framesRendered + 1 /\ ~loading'
        /\ (framesRendered' = framesRendered + 1 /\ loading')
            => loadMetrics'.total.durationMs = Null
        /\ (framesRendered' = framesRendered + 1 /\ ~loading)
            => loadMetrics'.total.durationMs # Null ]_vars

\* MaxFrames frames were rendered after a model without textures loaded at once,
\* and the total is known: the clock reading of the frame that wrote it
C20_Witness ==
    /\ build = "fbx" /\ framesRendered = MaxFrames /\ ~loading
    /\ loadMetrics.total.durationMs = MaxTime
    /\ loadMetrics.model.durationMs = 0 /\ Len(requests) = 0

\* ------------------------------------------------------------------------
\* The in-flight counter, C21
\* ------------------------------------------------------------------------
\* C21: in every state of a session textureLoadsInFlight is not negative and is the
\* number of texture loads started and not yet settled, textureLoadStart is known
\* exactly when textureLoadsInFlight > 0, and textures.durationMs is unknown
\* whenever textureLoadsInFlight > 0.
C21_InFlightCountsPendingLoads ==
    /\ textureLoadsInFlight >= 0
    /\ textureLoadsInFlight
         = Cardinality({ r \in 1..Len(requests) : Pending(requests[r].state) })
    /\ (textureLoadStart # Null) <=> (textureLoadsInFlight > 0)
    /\ textureLoadsInFlight > 0 => loadMetrics.textures.durationMs = Null

\* two loads in flight after another one of the batch has settled
C21_Witness ==
    /\ textureLoadsInFlight = 2 /\ textureLoadStart # Null
    /\ loadMetrics.textures.durationMs = Null
    /\ \E r \in 1..Len(requests) : requests[r].state \in { "ok", "fail" }

\* ------------------------------------------------------------------------
\* loadTexture called at any time, C22
\* ------------------------------------------------------------------------
\* the paths asked for: two files of the build
CachePaths ==
    IF build = "glb"
    THEN { buildSharedTextureFileName(MatMetalKey, c) : c \in { "BaseColor", "Normal" } }
    ELSE { << PartA, "a.png" >>, << PartB, "b.png" >> }

\* a model without meshes arrives, so that the scene is up with no texture asked for
ModelLoadedEmpty == ModelArrived(<< >>)

\* buildMaterialForMesh for one more mesh with one channel, once the scene is up:
\* loadTexture is called while earlier loads are in flight, have succeeded or have
\* failed
LoadTextureCall(path) ==
    /\ pc = "done" /\ Len(requests) < MaxCalls
    /\ LET task == Len(materials) + 1
           candidate == [material |-> "other", created |-> TRUE,
                         maps |-> NoMaps, resolved |-> FALSE]
       IN  Commit(BuildSettled(
                    loadTexture([Cur EXCEPT !.materials = Append(@, candidate)],
                                [path |-> path, part |-> NullName, variant |-> NullName,
                                 state |-> "new", handle |-> 0, task |-> task,
                                 channel |-> "BaseColor"]),
                    task))
    /\ UNCHANGED now

NextCache ==
    \/ Mount \/ EnvLoaded \/ ModelLoadedEmpty
    \/ \E path \in CachePaths : LoadTextureCall(path)
    \/ \E r \in 1..Len(requests) : TextureFetched(r)
    \/ \E r \in 1..Len(requests) : TextureLoaded(r)
    \/ \E r \in 1..Len(requests) : TextureFailed(r)
    \/ \E url \in DOMAIN probes : ProbeReturned(url)

SpecCache == Init /\ [][NextCache]_vars

\* a load of the path has succeeded / has failed
Succeeded(path) ==
    \E r \in 1..Len(requests) : requests[r].path = path /\ requests[r].state = "ok"
Failed(path) ==
    \E r \in 1..Len(requests) : requests[r].path = path /\ requests[r].state = "fail"

\* C22: the texture cache holds a path only if a load of that path has succeeded,
\* a failed load inserting nothing; a loadTexture call for a path whose loads have
\* failed, none having succeeded, starts a new load; a call that hits the cache
\* returns the cached texture and starts no load, changing neither the in-flight
\* counter nor the texture metrics nor the manager's items.
C22_CacheHoldsSucceededLoads ==
    [][ /\ \A path \in DOMAIN textureCache' :
              \E r \in 1..Len(requests') :
                  /\ requests'[r].path = path /\ requests'[r].state = "ok"
                  /\ requests'[r].handle = textureCache'[path]
        /\ Len(requests') = Len(requests) + 1 =>
              LET call == requests'[Len(requests')]
              IN  /\ (Failed(call.path) /\ ~Succeeded(call.path))
                        => /\ call.state = "inflight"
                           /\ textureLoadsInFlight' = textureLoadsInFlight + 1
                  /\ call.state = "hit" <=> call.path \in DOMAIN textureCache
                  /\ call.state = "hit"
                        => /\ call.handle = textureCache[call.path]
                           /\ UNCHANGED << textureCache, textureLoadsInFlight,
                                           textureLoadStart, loadMetrics, itemsTotal,
                                           itemsLoaded >> ]_vars

\* a load of a path failed, a load of the same path succeeded, and a call for it
\* was answered from the cache
C22_Witness ==
    \E i, j, k \in 1..Len(requests) :
        /\ i < j /\ j < k
        /\ requests[i].path = requests[j].path /\ requests[j].path = requests[k].path
        /\ requests[i].state = "fail" /\ requests[j].state = "ok"
        /\ requests[k].state = "hit" /\ requests[k].handle = requests[j].handle
        /\ textureLoadsInFlight = 0

\* ------------------------------------------------------------------------
\* toggleExplode (GLB build), C23
\* ------------------------------------------------------------------------
\* Positions have one coordinate, in hundredths of the scene's unit. The box of
\* the model is taken over the positions of its meshes.
FilePositions == { 0, 100, 200, 300 }
Layouts == Strs(FilePositions, MaxMeshes)

BoxMin(ps) == CHOOSE p \in ps : \A q \in ps : p <= q
BoxMax(ps) == CHOOSE p \in ps : \A q \in ps : q <= p
\* box.getCenter: the origin for an empty box
BoxCenter(ps) == IF ps = {} THEN 0 ELSE (BoxMin(ps) + BoxMax(ps)) \div 2
\* box.getSize(...).length() * 0.08, rounded down
BoxMagnitude(ps) == IF ps = {} THEN 0 ELSE ((BoxMax(ps) - BoxMin(ps)) * 8) \div 100
\* dir.normalize(): a zero vector is replaced by one with positive components first
Direction(d) == IF d < 0 THEN 0 - 1 ELSE 1

\* toggleExplode storing the current position on every call
toggleExplodeOverwrites(x, state) ==
    IF ~glbRoot THEN x
    ELSE LET ps == { x.meshes[i].position : i \in DOMAIN x.meshes }
             center == BoxCenter(ps)
             magnitude == BoxMagnitude(ps)
             stored == [i \in DOMAIN x.meshes |-> x.meshes[i].position]
             moved(i) == IF ~state THEN stored[i]
                         ELSE stored[i]
                              + Direction(x.meshes[i].position - center) * magnitude
         IN  [meshes |-> [i \in DOMAIN x.meshes |->
                            [x.meshes[i] EXCEPT !.position = moved(i)]],
              originalPositions |-> stored,
              exploded |-> state]

\* toggleExplode(state) on x = [meshes, originalPositions, exploded]
toggleExplode(x, state) ==
    IF ~glbRoot THEN x
    ELSE LET ps == { x.meshes[i].position : i \in DOMAIN x.meshes }
             center == BoxCenter(ps)
             magnitude == BoxMagnitude(ps)
             stored == [i \in DOMAIN x.meshes |->
                          IF i \in DOMAIN x.originalPositions
                          THEN x.originalPositions[i]
                          ELSE x.meshes[i].position]
             moved(i) == IF ~state THEN stored[i]
                         ELSE stored[i]
                              + Direction(x.meshes[i].position - center) * magnitude
         IN  [meshes |-> [i \in DOMAIN x.meshes |->
                            [x.meshes[i] EXCEPT !.position = moved(i)]],
              originalPositions |-> stored,
              exploded |-> state]

\* a call of toggleExplode, from the button or otherwise, at any time
ToggleExplode(state) ==
    /\ LET x == toggleExplode([meshes |-> meshes, originalPositions |-> originalPositions,
                               exploded |-> exploded], state)
       IN  /\ meshes' = x.meshes
           /\ originalPositions' = x.originalPositions
           /\ exploded' = x.exploded
    /\ UNCHANGED << rvars, build, now, pc, envState, modelState, content, requests, loading,
                    errorMessage, loadMetrics, renderer, textureCache, assetSizeCache,
                    recordedTextureAssets, textureLoadsInFlight, textureLoadStart,
                    modelLoadStart, modelSizeRecorded, hasRenderedFirstFrame, textureDebug,
                    probes, itemsTotal, itemsLoaded, modelInScene, animating,
                    framesRendered, materials, unmounted, glbRoot >>

\* the GLB session of a model whose meshes stand at the positions of a layout; the
\* material builds of the meshes are left out
InitExplode ==
    /\ build = "glb" /\ SessionStart /\ ResolverIdle
    /\ \E layout \in Layouts :
          meshes = [i \in DOMAIN layout |-> [position |-> layout[i], file |-> layout[i]]]

NextExplode ==
    \/ Mount \/ EnvLoaded \/ ModelLoadedEmpty
    \/ \E state \in BOOLEAN : ToggleExplode(state)

SpecExplode == InitExplode /\ [][NextExplode]_vars

\* C23: a stored original position is the position the mesh had before the first
\* toggleExplode call, however many toggleExplode(true) calls have followed, and
\* after a run of calls ending with toggleExplode(false) (exploded is false) every
\* mesh stands at that position; before glbRoot is set a call stores nothing.
C23_ExplodeRestoresOriginals ==
    /\ \A i \in DOMAIN originalPositions : originalPositions[i] = meshes[i].file
    /\ ~exploded => \A i \in DOMAIN meshes : meshes[i].position = meshes[i].file
    /\ ~glbRoot => originalPositions = EmptyMap /\ ~exploded

\* two meshes, exploded twice (the first call moves them by 8, the second by 9),
\* with the stored originals still the positions of the file
C23_Witness ==
    /\ exploded /\ Len(meshes) = 2
    /\ meshes[1].file = 0 /\ meshes[2].file = 100
    /\ meshes[1].position = 0 - 9 /\ meshes[2].position = 109
    /\ originalPositions = << 0, 100 >>

\* ------------------------------------------------------------------------
\* The end of loading, C24
\* ------------------------------------------------------------------------
\* every fetch under way comes to an end, with success or with failure: the
\* environment map, the model file, and each texture (for a KTX2 texture the fetch
\* and then the transcode)
EnvSettles == EnvLoaded \/ EnvFailed
ModelSettles == ModelLoaded \/ ModelFailed
TextureSettles ==
    \E r \in 1..Len(requests) : TextureFetched(r) \/ TextureLoaded(r) \/ TextureFailed(r)

\* the session with the clock left out
NextLive ==
    \/ Mount \/ EnvLoaded \/ EnvFailed \/ ModelLoaded \/ ModelFailed
    \/ \E r \in 1..Len(requests) : TextureFetched(r)
    \/ \E r \in 1..Len(requests) : TextureLoaded(r)
    \/ \E r \in 1..Len(requests) : TextureFailed(r)
    \/ \E url \in DOMAIN probes : ProbeReturned(url)
    \/ Frame \/ Dispose

\* onMounted runs, and no fetch stays under way forever
SpecLive ==
    /\ Init /\ [][NextLive]_vars
    /\ WF_vars(Mount) /\ WF_vars(EnvSettles) /\ WF_vars(ModelSettles)
    /\ WF_vars(TextureSettles)

\* the state the claim calls final: loading over, and an error shown or the model
\* in the scene with the render loop running
LoadingOver == ~loading /\ (errorMessage # "" \/ (modelInScene /\ animating))

\* C24: if every started fetch ends, the session reaches a state with loading false
\* in which errorMessage is non-empty or the model is in the scene with the render
\* loop running; loading is false from some point on for good; and the session
\* stays in such a state for as long as the component is mounted (onBeforeUnmount
\* stops the loop).
C24_LoadingEnds ==
    /\ <>LoadingOver
    /\ <>[](~loading)
    /\ <>[](unmounted \/ LoadingOver)

\* loading over with the model in the scene and the loop running, after one texture
\* load failed and one succeeded
C24_Witness ==
    /\ ~unmounted /\ LoadingOver /\ errorMessage = ""
    /\ \E r \in 1..Len(requests) : requests[r].state = "fail"
    /\ \E r \in 1..Len(requests) : requests[r].state = "ok"

\* ---- inputs of the resolver specifications --------------------------------
Str1(a) == << a >>
Str2(a, b) == << a, b >>
Str3(a, b, c) == << a, b, c >>

\* manifest part keys: "a", "aB", "B", "-ba"
SampleKeys == { Str1("a"), Str2("a", "B"), Str1("B"), Str3("-", "b", "a") }
\* node names: every string over a, b up to MaxNameLen, and some with blanks,
\* punctuation and capitals
NodeNames == Strs({ "a", "b" }, MaxNameLen)
                \cup { Str1(" "), Str2("-", "b"), Str3("A", " ", "b") }
AncestorLists == Strs(NodeNames, MaxAncestors)
Distinct(s) == \A i, j \in 1..Len(s) : i # j => s[i] # s[j]
KeyLists == { s \in Strs(SampleKeys, MaxParts) : Distinct(s) }

matA == << "m", "a", "t", "A" >>
matb == << "m", "a", "t", "b" >>
TexturesOf(file) == [c \in { "BaseColor", "Normal", "ORM" } |->
                        IF c = "BaseColor" THEN file ELSE NoFile]
DefaultVariants == << [key |-> matA, textures |-> TexturesOf("a.png")] >>

InitPart ==
    /\ manifestData \in { [i \in 1..Len(ks) |-> [key |-> ks[i], variants |-> DefaultVariants]] :
                            ks \in KeyLists }
    /\ inMesh \in { [name |-> n, parents |-> ps] : n \in NodeNames, ps \in AncestorLists }
    /\ inMaterial = NullName
    /\ outPartKey = Unset
    /\ outToken = Unset
    /\ outInfo = UnsetInfo
    /\ build = "fbx" /\ SessionIdle

FindPartKey ==
    /\ outPartKey = Unset
    /\ outPartKey' = findPartKeyFromObject(inMesh)
    /\ UNCHANGED << manifestData, inMesh, inMaterial, outToken, outInfo, svars >>

NextPart == FindPartKey
SpecPart == InitPart /\ [][NextPart]_vars

\* node name `name` matches manifest part k: the name is not blank and, normalised,
\* has the normalised key as a prefix or substring
Matches(name, k) ==
    /\ trim(name) # << >>
    /\ includes(normalizeKey(name), normalizeKey(manifestData[k].key))

\* C6 as stated: whenever the mesh's own name or an ancestor's name, normalised,
\* contains the normalised part key K, findPartKeyFromObject returns K.
C6_AnyMatchingKeyReturned ==
    outPartKey # Unset =>
        \A k \in 1..Len(manifestData), i \in 1..Len(NodeChain(inMesh)) :
            includes(normalizeKey(NodeChain(inMesh)[i]), normalizeKey(manifestData[k].key))
                => outPartKey = manifestData[k].key

\* C6 amended: findPartKeyFromObject returns K when K is the first key, in manifest
\* order, matched by the nearest node (the mesh, then its ancestors) with a non-blank
\* name that matches any key; in particular when K is the only key matched.
C6_FirstKeyOfNearestMatch ==
    outPartKey # Unset =>
        \A k \in 1..Len(manifestData), i \in 1..Len(NodeChain(inMesh)) :
            ( /\ Matches(NodeChain(inMesh)[i], k)
              /\ \A k2 \in 1..(k - 1) : ~Matches(NodeChain(inMesh)[i], k2)
              /\ \A j \in 1..(i - 1), k2 \in 1..Len(manifestData) :
                    ~Matches(NodeChain(inMesh)[j], k2) )
                => outPartKey = manifestData[k].key

\* C6 witness: the call returned a key that only an ancestor matches, and that
\* ancestor matches two keys of the manifest.
C6_Witness ==
    /\ outPartKey # Unset
    /\ outPartKey # NullName
    /\ Len(NodeChain(inMesh)) = 2
    /\ \A k \in 1..Len(manifestData) : ~Matches(inMesh.name, k)
    /\ Cardinality({ k \in 1..Len(manifestData) : Matches(inMesh.parents[1], k) }) = 2

\* C19: the walk of findPartKeyFromObject starts at the mesh and ends at the root
\* of the chain with a result for every input: the key returned is one matched by
\* the node nearest to the mesh that matches any manifest key, never the match of a
\* farther ancestor, and the result is null when no node of the chain matches.
C19_NearestMatchingNode ==
    outPartKey # Unset =>
        LET chain == NodeChain(inMesh)
            hits == { i \in 1..Len(chain) :
                        \E k \in 1..Len(manifestData) : Matches(chain[i], k) }
        IN  IF hits = {} THEN outPartKey = NullName
            ELSE \E k \in 1..Len(manifestData) :
                    /\ Matches(chain[SetMin(hits)], k)
                    /\ outPartKey = manifestData[k].key

\* the mesh matches one key and its parent only another: the mesh's key came back
C19_Witness ==
    /\ outPartKey # Unset /\ outPartKey # NullName
    /\ Len(inMesh.parents) = 1
    /\ \E k \in 1..Len(manifestData) :
          Matches(inMesh.name, k) /\ outPartKey = manifestData[k].key
    /\ \E k \in 1..Len(manifestData) : Matches(inMesh.parents[1], k)
    /\ \A k \in 1..Len(manifestData) :
          Matches(inMesh.parents[1], k) => outPartKey # manifestData[k].key

\* ---- variant resolution ---------------------------------------------------
Str4(a, b, c, d) == << a, b, c, d >>
\* declared variant keys: "matA", "matb", "Mat-B" (normalised "matb")
VariantKeySamples == { matA, matb, << "M", "a", "t", "-", "B" >> }
VariantLists == { s \in Strs(VariantKeySamples, MaxVariants) : Distinct(s) }
\* material names: every string over m, a, t, - up to MaxMatLen, and some with
\* capitals, digits, a prefix, two matches; and no material name at all
MaterialNames == Strs({ "m", "a", "t", "-" }, MaxMatLen)
                    \cup { NullName,
                           Str4("M", "A", "T", "b"),
                           << "x", "-", "m", "a", "t", "b", "1" >>,
                           << "m", "a", "t", "b", "_", "m", "a", "t", "A" >> }
\* mesh names: "a", "a_matb", "a MATA", and "b", which matches no part
VariantMeshNames == { Str1("a"), << "a", "_", "m", "a", "t", "b" >>,
                      << "a", " ", "M", "A", "T", "A" >>, Str1("b") }

InitVariant ==
    /\ manifestData \in
          { << [key |-> Str1("a"),
                variants |-> [i \in 1..Len(vs) |->
                                [key |-> vs[i], textures |-> TexturesOf("a.png")]]] >> :
            vs \in VariantLists }
    /\ inMesh \in { [name |-> n, parents |-> << >>] : n \in VariantMeshNames }
    /\ inMaterial \in MaterialNames
    /\ outPartKey = Unset
    /\ outToken = Unset
    /\ outInfo = UnsetInfo
    /\ build = "fbx" /\ SessionIdle

ExtractVariant ==
    /\ outToken = Unset
    /\ outToken' = extractVariantName(inMaterial)
    /\ UNCHANGED << manifestData, inMesh, inMaterial, outPartKey, outInfo, svars >>

ResolveInfo ==
    /\ outInfo = UnsetInfo
    /\ build = "fbx" /\ SessionIdle
    /\ outInfo' = resolveManifestInfo(inMesh, inMaterial)
    /\ UNCHANGED << manifestData, inMesh, inMaterial, outPartKey, outToken, svars >>

NextVariant == ExtractVariant \/ ResolveInfo
SpecVariant == InitVariant /\ [][NextVariant]_vars

\* value[i..e] is a match of /mat[a-z0-9]+/i that cannot be extended to the right
IsMatch(value, i, e) ==
    /\ 1 <= i /\ i + 3 <= e /\ e <= Len(value)
    /\ toLowerCase(SubSeq(value, i, i + 2)) = << "m", "a", "t" >>
    /\ \A k \in (i + 3)..e : IsAlnum(value[k])
    /\ e = Len(value) \/ ~IsAlnum(value[e + 1])
HasMatch(value) == \E i, e \in 1..Len(value) : IsMatch(value, i, e)
\* the leftmost match, for a value that has one
FirstMatch(value) ==
    LET p == CHOOSE p \in (1..Len(value)) \X (1..Len(value)) :
                /\ IsMatch(value, p[1], p[2])
                /\ \A i \in 1..(p[1] - 1), e \in 1..Len(value) : ~IsMatch(value, i, e)
    IN  SubSeq(value, p[1], p[2])
Declared == manifestData[1].variants
DeclaredAs(token) ==
    \E v \in 1..Len(Declared) : normalizeKey(Declared[v].key) = normalizeKey(token)
PartResolved == outInfo # UnsetInfo /\ outInfo # NullInfo

\* C7 as stated: a material name with a match of mat[a-z0-9]+ yields that match as
\* the token, and the declared variant equal to it after normalisation is selected;
\* a material name without a match yields the part's first declared variant.
C7_MaterialNameAloneDecides ==
    /\ (outToken # Unset /\ HasMatch(inMaterial)) => outToken = FirstMatch(inMaterial)
    /\ (PartResolved /\ HasMatch(inMaterial) /\ DeclaredAs(FirstMatch(inMaterial)))
          => normalizeKey(outInfo.variantKey) = normalizeKey(FirstMatch(inMaterial))
    /\ (PartResolved /\ ~HasMatch(inMaterial)) => outInfo.variantKey = Declared[1].key

\* C7 amended: the token is the leftmost match in the material name or, when the
\* material name has none, the leftmost match in the mesh name; the first declared
\* variant equal to the token after normalisation is selected, and the part's first
\* declared variant when there is no token or no declared variant equals it.
C7_Token ==
    IF HasMatch(inMaterial) THEN FirstMatch(inMaterial)
    ELSE IF HasMatch(inMesh.name) THEN FirstMatch(inMesh.name)
    ELSE NullName
C7_MaterialThenMeshName ==
    /\ outToken # Unset =>
          outToken = (IF HasMatch(inMaterial) THEN FirstMatch(inMaterial) ELSE NullName)
    /\ PartResolved =>
          IF C7_Token # NullName /\ DeclaredAs(C7_Token)
          THEN outInfo.variantKey =
                 Declared[SetMin({ v \in 1..Len(Declared) :
                            normalizeKey(Declared[v].key) = normalizeKey(C7_Token) })].key
          ELSE outInfo.variantKey = Declared[1].key

\* C7 witness: the material name has no match, the mesh name has one, and the
\* variant it names, not the first declared one, was selected.
C7_Witness ==
    /\ PartResolved
    /\ inMaterial # NullName /\ ~HasMatch(inMaterial)
    /\ HasMatch(inMesh.name)
    /\ outInfo.variantKey # Declared[1].key
    /\ outToken = NullName

\* ---- the GLB build's resolver ----------------------------------------------
\* tokens names are made of: "4", "12", "a", "matx", "low"
GlbTokens == { Str1("4"), Str2("1", "2"), Str1("a"), Str4("m", "a", "t", "x"),
               Str3("l", "o", "w") }
\* mesh names: up to MaxTokens tokens joined by "_", and some with blanks, capitals
\* and punctuation: "4 a  1", "4-A_1", " ", ""
GlbMeshNames == { JoinTokens(ts) : ts \in Strs(GlbTokens, MaxTokens) }
                    \cup { << "4", " ", "a", " ", " ", "1" >>, << "4", "-", "A", "_", "1" >>,
                           Str1(" ") }
\* material names: none, "matPaint", "7_a_matx", "x"
GlbMaterialNames == { NullName, << "m", "a", "t", "P", "a", "i", "n", "t" >>,
                      << "7", "_", "a", "_", "m", "a", "t", "x" >>, Str1("x") }
\* ancestor names, nearest first: none; "9_a_2"; "z" and then "9_fmatx"
GlbAncestorLists == { << >>, << << "9", "_", "a", "_", "2" >> >>,
                      << Str1("z"), << "9", "_", "f", "m", "a", "t", "x" >> >> }

InitGlb ==
    /\ build = "glb" /\ SessionIdle
    /\ manifestData = << >>
    /\ inMesh \in { [name |-> n, parents |-> ps] : n \in GlbMeshNames, ps \in GlbAncestorLists }
    /\ inMaterial \in GlbMaterialNames
    /\ outPartKey = Unset /\ outToken = Unset /\ outInfo = UnsetInfo

GlbFindPartKey ==
    /\ outPartKey = Unset
    /\ outPartKey' = glbFindPartKeyFromObject(inMesh, inMaterial)
    /\ UNCHANGED << manifestData, inMesh, inMaterial, outToken, outInfo, svars >>

GlbBuildMaterial ==
    /\ outInfo = UnsetInfo
    /\ outInfo' = buildMaterialForMesh([mesh |-> inMesh, material |-> inMaterial])
    /\ UNCHANGED << manifestData, inMesh, inMaterial, outPartKey, outToken, svars >>

NextGlb == GlbFindPartKey \/ GlbBuildMaterial
SpecGlb == InitGlb /\ [][NextGlb]_vars

\* the candidates in the order the claim gives
C17_Candidates ==
    Truthy(<< inMesh.name >>) \o Truthy(<< inMaterial >>) \o Truthy(inMesh.parents)
\* the tokens of a candidate from its first purely numeric token up to, and
\* excluding, the next token that begins with "mat"
C17_Collected(candidate) ==
    LET tokens == SplitTokens(sanitizeName(candidate), 1, << >>)
        IsStart(k) == IsDigits(tokens[k]) /\ \A j \in 1..(k - 1) : ~IsDigits(tokens[j])
        IsMat(k) == startsWith(tokens[k], << "m", "a", "t" >>)
    IN  SelectSeq([k \in 1..Len(tokens) |-> << k, tokens[k] >>],
                  LAMBDA p : \E n \in 1..p[1] : IsStart(n) /\ \A j \in n..p[1] : ~IsMat(j))
C17_Qualifies(candidate) == Len(C17_Collected(candidate)) >= 2
\* joined without one trailing _<digits>
C17_StripSuffix(joined) ==
    LET cuts == { k \in 1..(Len(joined) - 1) :
                    /\ joined[k] = "_"
                    /\ \A j \in (k + 1)..Len(joined) : joined[j] \in DigitChars }
    IN  IF cuts = {} THEN joined ELSE SubSeq(joined, 1, SetMax(cuts) - 1)
C17_ResultOf(candidate) ==
    LET collected == C17_Collected(candidate)
    IN  C17_StripSuffix(JoinTokens([k \in 1..Len(collected) |-> collected[k][2]]))

\* C17: findPartKeyFromObject of the GLB build looks at the mesh name, the material
\* name, then the ancestors' names nearest first, and returns the result of the
\* first candidate whose tokens from the first purely numeric one up to (excluding)
\* the first one beginning with "mat" are at least two: those tokens joined by "_"
\* with one trailing _<digits> removed; it returns null when no candidate qualifies.
C17_FirstQualifyingCandidate ==
    outPartKey # Unset =>
        LET hits == { i \in 1..Len(C17_Candidates) : C17_Qualifies(C17_Candidates[i]) }
        IN  outPartKey = (IF hits = {} THEN NullName
                          ELSE C17_ResultOf(C17_Candidates[SetMin(hits)]))

\* the mesh name does not qualify, the material name and the nearest ancestor do:
\* the material name "7_a_matx" gave "7_a"
C17_Witness ==
    /\ outPartKey = << "7", "_", "a" >>
    /\ ~C17_Qualifies(inMesh.name) /\ trim(inMesh.name) # << >>
    /\ Len(inMesh.parents) = 1 /\ C17_Qualifies(inMesh.parents[1])
    /\ C17_ResultOf(inMesh.parents[1]) # outPartKey

\* the variant token: the leftmost match of mat[a-z0-9]+ in the material name,
\* else in the mesh name, else in the part key
C18_VariantToken ==
    IF HasMatch(inMaterial) THEN FirstMatch(inMaterial)
    ELSE IF HasMatch(inMesh.name) THEN FirstMatch(inMesh.name)
    ELSE IF HasMatch(outPartKey) THEN FirstMatch(outPartKey)
    ELSE NullName

\* C18: in the GLB build buildMaterialForMesh returns a material for every mesh and
\* material name and asks for exactly three files, model_<name>_<Channel>.ktx2 for
\* the channels BaseColor, Normal and ORM, where <name> is the display name of the
\* variant: MatMetal, the default, whenever no mat[a-z0-9]+ token is found in the
\* material name, the mesh name or the part key.
C18_AlwaysThreeFiles ==
    (outInfo # UnsetInfo /\ outPartKey # Unset) =>
        /\ outInfo.created
        /\ Len(outInfo.wanted) = 3
        /\ \A i \in 1..3 :
              /\ outInfo.wanted[i].channel = << "BaseColor", "Normal", "ORM" >>[i]
              /\ outInfo.wanted[i].path =
                    << (IF C18_VariantToken = NullName
                        THEN << "M", "a", "t", "M", "e", "t", "a", "l" >>
                        ELSE variantFileNameMap(normalizeKey(C18_VariantToken))),
                       << "BaseColor", "Normal", "ORM" >>[i] >>

\* no part key and no variant token: the three files of MatMetal are asked for
C18_Witness ==
    /\ outInfo # UnsetInfo /\ outPartKey = NullName
    /\ C18_VariantToken = NullName
    /\ outInfo.created
    /\ outInfo.wanted[1].path = << << "M", "a", "t", "M", "e", "t", "a", "l" >>, "BaseColor" >>

====
